---------------------------- MODULE Spec2Model ----------------------------
(***************************************************************************)
(* pftabler.py: one run of main().  Text is modelled as sequences of       *)
(* one-character strings so that splitting, matching, formatting and       *)
(* justification are computed the way the Python code computes them.       *)
(* External commands are answered by the environment: every runsh call     *)
(* draws its stdout, stderr and return code from small sample sets.        *)
(***************************************************************************)
EXTENDS Integers, Sequences, FiniteSets, TLC

\* Largest number of lines the listing command prints in one run.
MaxLines == 2

(***************************************************************************)
(* Text literals of the program and the sample texts of its environment.   *)
(***************************************************************************)
pfctl_default ==
    <<"/", "s", "b", "i", "n", "/", "p", "f", "c", "t", "l">>

directory_default ==
    <<"/", "v", "a", "r", "/", "p", "f">>

directory_other ==
    <<"/", "t", "m", "p">>

expiration_default ==
    <<"8", "6", "4", "0", "0">>

expiration_long ==
    <<"1", "2", "3", "4", "5", "6", "7", "8", "9", "0">>

expiration_text ==
    <<"1", "d">>

name_bad_udp_vpn ==
    <<"b", "a", "d", "_", "u", "d", "p", "_", "v", "p", "n">>

name_bad_tcp_vpn ==
    <<"b", "a", "d", "_", "t", "c", "p", "_", "v", "p", "n">>

name_bad_ssh ==
    <<"b", "a", "d", "_", "s", "s", "h">>

name_mytable ==
    <<"m", "y", "t", "a", "b", "l", "e">>

delta_432000 ==
    <<"4", "3", "2", "0", "0", "0">>

delta_864000 ==
    <<"8", "6", "4", "0", "0", "0">>

line_bad_ssh ==
    <<"-", "p", "a", "-", "r", "-", "-", " ", "b", "a", "d", "_", "s", "s",
     "h">>

line_mytable ==
    <<"-", "p", "a", "-", "r", "-", "-", "\t", "m", "y", "t", "a", "b", "l",
     "e">>

line_bad_udp_vpn ==
    <<"-", "p", "a", "-", "r", "-", "-", " ", "b", "a", "d", "_", "u", "d",
     "p", "_", "v", "p", "n">>

line_automatic ==
    <<"c", "-", "a", "-", "r", "-", "-", " ", "a", "u", "t", "o", "_", "0">>

line_flags_only_persistent ==
    <<"-", "p", "a", "-", "r", "-", "-">>

line_flags_only_other ==
    <<"c", "-", "a", "-", "r", "-", "-">>

se_3_of_10 ==
    <<"3", "/", "1", "0", " ", "a", "d", "d", "r", "e", "s", "s", "e", "s",
     " ", "e", "x", "p", "i", "r", "e", "d", ".">>

se_12_of_40 ==
    <<"1", "2", "/", "4", "0", " ", "a", "d", "d", "r", "e", "s", "s", "e",
     "s", " ", "e", "x", "p", "i", "r", "e", "d", ".">>

se_no_match ==
    <<"p", "f", "c", "t", "l", ":", " ", "e", "r", "r">>

pattern_tail ==
    <<" ", "a", "d", "d", "r", "e", "s", "s", "e", "s", " ", "e", "x", "p",
     "i", "r", "e", "d">>

fmt_vsTables ==
    <<" ", "-", "v", "s", "T", "a", "b", "l", "e", "s">>

fmt_t ==
    <<" ", "-", "t", " ">>

fmt_T_show ==
    <<" ", "-", "T", " ", "s", "h", "o", "w", " ", ">", " ">>

fmt_T_expire ==
    <<" ", "-", "T", " ", "e", "x", "p", "i", "r", "e", " ">>

fmt_txt ==
    <<".", "t", "x", "t">>

fmt_err_1 ==
    <<"E", "R", "R", "O", "R", ":", " ", "C", "o", "u", "l", "d", " ", "n",
     "o", "t", " ", "b", "a", "c", "k", "u", "p", " ", "t", "a", "b", "l",
     "e", " ">>

fmt_err_2 ==
    <<" ", "a", "s", " ">>

time_str ==
    <<"D", "u", "r", "a", "t", "i", "o", "n">>

hdr_count ==
    <<"#">>

hdr_table ==
    <<"T", "a", "b", "l", "e">>

sep_col ==
    <<" ", "|", " ">>

indent ==
    <<" ", " ">>

print_title ==
    <<"=", "=", ">", " ", "p", "f", "t", "a", "b", "l", "e", "r", ".", "p",
     "y", " ", "s", "t", "a", "t", "i", "s", "t", "i", "c", "s", " ", "<",
     "=", "=">>

print_l1 ==
    <<"T", "h", "e", " ", "n", "u", "m", "b", "e", "r", "s", " ", "r", "e",
     "p", "r", "e", "s", "e", "n", "t", " ", "I", "P", " ", "a", "d", "d",
     "r", "e", "s", "e", "s", "s", " ", "t", "h", "a", "t", " ", "w", "e",
     "r", "e", " ", "a", "d", "d", "e", "d">>

print_l2 ==
    <<"a", "s", " ", "p", "f", " ", "r", "u", "l", "e", "s", " ", "t", "o",
     " ", "t", "h", "e", " ", "a", "c", "t", "i", "v", "e", " ", "f", "i",
     "r", "e", "w", "a", "l", "l", ".", " ", "T", "h", "e", " ", "r", "u",
     "l", "e", "s", " ", "a", "r", "e", " ">>

print_l3 ==
    <<"h", "a", "v", "e", " ", "b", "e", "e", "n", " ", "r", "e", "m", "o",
     "v", "e", "d", " ", "d", "u", "e", " ", "t", "o", " ", "e", "x", "p",
     "i", "r", "a", "t", "i", "o", "n", ".", " ", " ", "T", "h", "e", "i",
     "r", " ", "d", "u", "r", "a", "t", "i", "o", "n", " ", "i", "s">>

print_l4 ==
    <<"l", "i", "s", "t", "e", "d", " ", "i", "n", " ", "s", "e", "c", "o",
     "n", "d", "s", ".">>

(***************************************************************************)
(* Input samples.                                                          *)
(***************************************************************************)
\* Lines "pfctl -vsTables" may print: persistent tables, an automatic
\* table, a blank line and lines holding a flag string only.
LineSamples ==
    {line_bad_ssh, line_mytable, line_bad_udp_vpn, line_automatic,
     <<>>, line_flags_only_persistent, line_flags_only_other}

\* Diagnostic (stderr) texts of "pfctl -T expire".
SeSamples == {se_3_of_10, se_12_of_40, se_no_match, <<>>}

\* Return codes of a subprocess.
ExitCodes == {0, 1}

DirectorySamples == {directory_default, directory_other}

ExpirationSamples == {expiration_default, expiration_long, expiration_text}

\* EXPIRE_DELTAS: tables that expire outside of the usual one day value.
EXPIRE_DELTAS ==
    name_bad_udp_vpn :> delta_432000 @@
    name_bad_tcp_vpn :> delta_864000 @@
    name_bad_ssh :> delta_864000

\* The values argparse can hand to main().
get_args ==
    [backup : BOOLEAN, expire : BOOLEAN,
     directory : DirectorySamples, expiration : ExpirationSamples]

(***************************************************************************)
(* String helpers (Python str methods).                                    *)
(***************************************************************************)
Whitespace == {" ", "\t", "\n", "\r", "\f"}

Digits == {"0", "1", "2", "3", "4", "5", "6", "7", "8", "9"}

Spaces(n) == [i \in 1..n |-> " "]

Dashes(n) == [i \in 1..n |-> "-"]

\* str.rjust(width): pad on the left, never truncate.
rjust(s, w) == IF Len(s) >= w THEN s ELSE Spaces(w - Len(s)) \o s

\* str.ljust(width): pad on the right, never truncate.
ljust(s, w) == IF Len(s) >= w THEN s ELSE s \o Spaces(w - Len(s))

\* The text a command prints for a list of lines: each line newline-ended.
RECURSIVE JoinLines(_)
JoinLines(ls) ==
    IF ls = <<>> THEN <<>>
    ELSE Head(ls) \o <<"\n">> \o JoinLines(Tail(ls))

\* str.splitlines(): cut at every newline; no trailing empty piece.
RECURSIVE splitlinesFrom(_, _, _, _)
splitlinesFrom(s, i, cur, acc) ==
    IF i > Len(s) THEN (IF cur = <<>> THEN acc ELSE Append(acc, cur))
    ELSE IF s[i] = "\n" THEN splitlinesFrom(s, i + 1, <<>>, Append(acc, cur))
    ELSE splitlinesFrom(s, i + 1, Append(cur, s[i]), acc)

splitlines(s) == splitlinesFrom(s, 1, <<>>, <<>>)

\* str.split(): the maximal runs of non-whitespace characters.
RECURSIVE splitFrom(_, _, _, _)
splitFrom(s, i, cur, acc) ==
    IF i > Len(s) THEN (IF cur = <<>> THEN acc ELSE Append(acc, cur))
    ELSE IF s[i] \in Whitespace
         THEN splitFrom(s, i + 1, <<>>,
                        IF cur = <<>> THEN acc ELSE Append(acc, cur))
    ELSE splitFrom(s, i + 1, Append(cur, s[i]), acc)

split(s) == splitFrom(s, 1, <<>>, <<>>)

(***************************************************************************)
(* runsh and the three pfctl wrappers.                                     *)
(***************************************************************************)
\* runsh(sh): the command line run and what the subprocess answered.
\* raise_err is False in every call of this program, so it never raises.
runsh(sh, so, se, rc) == [sh |-> sh, so |-> so, se |-> se, rc |-> rc]

\* Faulty variant of LineVerdict: tests the first flag character, not the
\* second.
LineVerdict_first_flag(line) ==
    LET f == split(line) IN
    IF Len(f) = 0 THEN "IndexError"
    ELSE IF Len(f[1]) < 1 THEN "IndexError"
    ELSE IF f[1][1] /= "p" THEN "skip"
    ELSE IF Len(f) < 2 THEN "IndexError"
    ELSE "take"

\* One line of the listing: "skip", "take" (persistent) or "IndexError".
LineVerdict(line) ==
    LET f == split(line) IN
    IF Len(f) = 0 THEN "IndexError"
    ELSE IF Len(f[1]) < 2 THEN "IndexError"
    ELSE IF f[1][2] /= "p" THEN "skip"
    ELSE IF Len(f) < 2 THEN "IndexError"
    ELSE "take"

RECURSIVE PersistentFrom(_, _, _)
PersistentFrom(lines, i, tables) ==
    IF i > Len(lines) THEN [raised |-> "", tables |-> tables]
    ELSE LET v == LineVerdict(lines[i]) IN
         IF v = "IndexError" THEN [raised |-> "IndexError", tables |-> <<>>]
         ELSE IF v = "take"
              THEN PersistentFrom(lines, i + 1,
                                  Append(tables, split(lines[i])[2]))
         ELSE PersistentFrom(lines, i + 1, tables)

\* get_persistent_tables(): the command line it runs ...
get_persistent_tables_sh == pfctl_default \o fmt_vsTables

\* Faulty variant of get_persistent_tables: the return code is not looked
\* at.
get_persistent_tables_ignoring_rc(so, rc) ==
    PersistentFrom(splitlines(so), 1, <<>>)

\* ... and what it makes of the answer (so, rc).
get_persistent_tables(so, rc) ==
    IF rc = 0 THEN PersistentFrom(splitlines(so), 1, <<>>)
    ELSE [raised |-> "", tables |-> <<>>]

\* dump_table(table, filename): its command line.
dump_table(table, filename) ==
    pfctl_default \o fmt_t \o table \o fmt_T_show \o filename

\* expire_table(table, expiration): its command line.
expire_table(table, expiration) ==
    pfctl_default \o fmt_t \o table \o fmt_T_expire \o expiration

(***************************************************************************)
(* re.search('(\d+)/(\d+) addresses expired.', se)                         *)
(***************************************************************************)
\* Index of the last character of the digit run that starts at i (i - 1
\* when s[i] is no digit).
RECURSIVE DigitRunEnd(_, _)
DigitRunEnd(s, i) ==
    IF i <= Len(s) /\ s[i] \in Digits THEN DigitRunEnd(s, i + 1) ELSE i - 1

\* Does the pattern match with its first character at index i?
MatchAt(s, i) ==
    LET j == DigitRunEnd(s, i)
        k == DigitRunEnd(s, j + 2)
        n == Len(pattern_tail)
    IN  /\ j >= i
        /\ j + 1 <= Len(s) /\ s[j + 1] = "/"
        /\ k >= j + 2
        /\ k + n + 1 <= Len(s)
        /\ SubSeq(s, k + 1, k + n) = pattern_tail
        /\ s[k + n + 1] /= "\n"

\* The leftmost match, and its group(1).
re_search(se) ==
    LET starts == {i \in 1..Len(se) : MatchAt(se, i)} IN
    IF starts = {} THEN [matched |-> FALSE, group1 |-> <<>>]
    ELSE LET i == CHOOSE x \in starts : \A y \in starts : x <= y
         IN  [matched |-> TRUE, group1 |-> SubSeq(se, i, DigitRunEnd(se, i))]

(***************************************************************************)
(* Formatting done by main().                                              *)
(***************************************************************************)
\* filename = '%s/%s.txt' % (args.directory, table)
backup_filename(directory, table) == directory \o <<"/">> \o table \o fmt_txt

\* err_str = 'ERROR: Could not backup table %s as %s' % (table, filename)
err_str(table, filename) == fmt_err_1 \o table \o fmt_err_2 \o filename

\* Faulty variant of resolve_expiration: EXPIRE_DELTAS is not consulted.
resolve_expiration_default_only(table, expiration) == expiration

\* expirations[table]: the built-in delta when there is one, else the
\* --expiration argument.
resolve_expiration(table, expiration) ==
    IF table \in DOMAIN EXPIRE_DELTAS THEN EXPIRE_DELTAS[table]
    ELSE expiration

\* '  %s | %s | %s' % (count.rjust(ipwidth), name.ljust(width),
\*                     duration.rjust(ewidth))
format_row(count, name, duration, iw, w, ew) ==
    indent \o rjust(count, iw) \o sep_col \o ljust(name, w) \o sep_col
           \o rjust(duration, ew)

\* header = '  %s | %s | %s' % ('#'.rjust(ipwidth), 'Table'.ljust(width),
\*                              time_str.rjust(ewidth))
format_header(iw, w, ew) ==
    indent \o rjust(hdr_count, iw) \o sep_col \o ljust(hdr_table, w)
           \o sep_col \o rjust(time_str, ew)

\* Faulty variant of format_separator: as long as the header, no more.
format_separator_exact(header) == Dashes(Len(header))

\* '-' * (len(header) + 2)
format_separator(header) == Dashes(Len(header) + 2)

\* A dict with key k set to v.
Put(d, k, v) == [x \in DOMAIN d \cup {k} |-> IF x = k THEN v ELSE d[x]]

EmptyDict == [x \in {} |-> <<>>]

\* The rows loop of main(): one row per table, KeyError at the first table
\* without a parsed count.
RECURSIVE RowsFrom(_, _, _, _, _, _, _, _)
RowsFrom(tbls, i, counts, durations, iw, w, ew, acc) ==
    IF i > Len(tbls) THEN [raised |-> "", outputs |-> acc]
    ELSE IF tbls[i] \notin DOMAIN counts
         THEN [raised |-> "KeyError", outputs |-> acc]
    ELSE RowsFrom(tbls, i + 1, counts, durations, iw, w, ew,
                  Append(acc, format_row(counts[tbls[i]], tbls[i],
                                         durations[tbls[i]], iw, w, ew)))

(***************************************************************************)
(* State of one run.                                                       *)
(***************************************************************************)
VARIABLES
    args,          \* the parsed command line
    pc,            \* where main() is
    raised,        \* the exception that ended the run ("" for none)
    calls,         \* every runsh call so far, in order
    tables,        \* what get_persistent_tables returned
    idx,           \* position of the running per-table loop
    outputs,       \* the outputs list
    width,         \* name column width
    ewidth,        \* duration column width
    ipwidth,       \* count column width
    expirations,   \* table -> duration
    ips,           \* table -> expired count
    printed        \* the lines written to standard output

vars == <<args, pc, raised, calls, tables, idx, outputs, width, ewidth,
          ipwidth, expirations, ips, printed>>

Init ==
    /\ args \in get_args
    /\ pc = "main"
    /\ raised = ""
    /\ calls = <<>>
    /\ tables = <<>>
    /\ idx = 1
    /\ outputs = <<>>
    /\ width = 0
    /\ ewidth = 0
    /\ ipwidth = 0
    /\ expirations = EmptyDict
    /\ ips = EmptyDict
    /\ printed = <<>>

\* Faulty variant of mode_error: the check for both flags is missing.
mode_error_neither_only(a) == ~a.backup /\ ~a.expire

\* The two mode checks at the top of main().
mode_error(a) == (~a.backup /\ ~a.expire) \/ (a.backup /\ a.expire)

CheckMode ==
    /\ pc = "main"
    /\ IF mode_error(args)
       THEN pc' = "raised" /\ raised' = "ValueError"
       ELSE pc' = "discover" /\ raised' = raised
    /\ UNCHANGED <<args, calls, tables, idx, outputs, width, ewidth, ipwidth,
                   expirations, ips, printed>>

\* Where main() goes once the tables are known.
first_loop(a) == IF a.backup THEN "backup" ELSE "expire"

\* tables = get_persistent_tables(), an IndexError of which leaves main();
\* then outputs = [] and, in expire mode, the initial column widths.
Discover ==
    /\ pc = "discover"
    /\ \E n \in 0..MaxLines, rc \in ExitCodes :
         \E ls \in [1..n -> LineSamples] :
           LET so == JoinLines(ls)
               r == get_persistent_tables(so, rc)
           IN  /\ calls' = Append(calls,
                     runsh(get_persistent_tables_sh, so, <<>>, rc))
               /\ IF r.raised /= ""
                  THEN /\ pc' = "raised"
                       /\ raised' = r.raised
                       /\ UNCHANGED <<tables, width, ewidth, ipwidth>>
                  ELSE /\ pc' = first_loop(args)
                       /\ raised' = raised
                       /\ tables' = r.tables
                       /\ width' = IF args.expire THEN 8 ELSE width
                       /\ ewidth' = IF args.expire THEN Len(time_str)
                                    ELSE ewidth
                       /\ ipwidth' = IF args.expire THEN 1 ELSE ipwidth
    /\ UNCHANGED <<args, idx, outputs, expirations, ips, printed>>

\* Faulty variant of BackupTable: the loop is left at the first dump that
\* fails.
BackupTable_abort_on_failure ==
    /\ pc = "backup"
    /\ idx <= Len(tables)
    /\ \E rc \in ExitCodes :
         LET table == tables[idx]
             filename == backup_filename(args.directory, table)
         IN  /\ calls' = Append(calls,
                   runsh(dump_table(table, filename), <<>>, <<>>, rc))
             /\ outputs' = IF rc /= 0
                           THEN Append(outputs, err_str(table, filename))
                           ELSE outputs
             /\ pc' = IF rc /= 0 THEN "done" ELSE pc
    /\ idx' = idx + 1
    /\ UNCHANGED <<args, raised, tables, width, ewidth, ipwidth,
                   expirations, ips, printed>>

\* One pass of the backup loop.
BackupTable ==
    /\ pc = "backup"
    /\ idx <= Len(tables)
    /\ \E rc \in ExitCodes :
         LET table == tables[idx]
             filename == backup_filename(args.directory, table)
         IN  /\ calls' = Append(calls,
                   runsh(dump_table(table, filename), <<>>, <<>>, rc))
             /\ outputs' = IF rc /= 0
                           THEN Append(outputs, err_str(table, filename))
                           ELSE outputs
    /\ idx' = idx + 1
    /\ UNCHANGED <<args, pc, raised, tables, width, ewidth, ipwidth,
                   expirations, ips, printed>>

\* The backup loop is over: main() returns; its prints belong to the
\* "if args.expire:" block, which is not entered.
BackupDone ==
    /\ pc = "backup"
    /\ idx > Len(tables)
    /\ pc' = "done"
    /\ UNCHANGED <<args, raised, calls, tables, idx, outputs, width, ewidth,
                   ipwidth, expirations, ips, printed>>

\* Faulty variant of Max: the width is never widened.
Max_keep(a, b) == a

\* "if len(x) > w: w = len(x)", as used for the three column widths.
Max(a, b) == IF a > b THEN a ELSE b

\* One pass of the first expire loop.
ExpireTable ==
    /\ pc = "expire"
    /\ idx <= Len(tables)
    /\ \E se \in SeSamples, rc \in ExitCodes :
         LET table == tables[idx]
             expiration == resolve_expiration(table, args.expiration)
             results == re_search(se)
         IN  /\ width' = Max(width, Len(table))
             /\ expirations' = Put(expirations, table, expiration)
             /\ ewidth' = Max(ewidth, Len(expiration))
             /\ calls' = Append(calls,
                   runsh(expire_table(table, expiration), <<>>, se, rc))
             /\ IF results.matched
                THEN /\ ips' = Put(ips, table, results.group1)
                     /\ ipwidth' = Max(ipwidth, Len(results.group1))
                ELSE UNCHANGED <<ips, ipwidth>>
    /\ idx' = idx + 1
    /\ UNCHANGED <<args, pc, raised, tables, outputs, printed>>

\* What the print statements of the expire block write.
expire_prints(header, rows) ==
    <<print_title, print_l1, print_l2, print_l3, print_l4, <<>>,
      header, format_separator(header)>> \o rows

\* The rows loop and the prints that follow it.
ExpireReport ==
    /\ pc = "expire"
    /\ idx > Len(tables)
    /\ LET r == RowsFrom(tables, 1, ips, expirations, ipwidth, width,
                         ewidth, outputs)
       IN  /\ outputs' = r.outputs
           /\ IF r.raised /= ""
              THEN /\ pc' = "raised"
                   /\ raised' = r.raised
                   /\ printed' = printed
              ELSE /\ pc' = "done"
                   /\ raised' = raised
                   /\ printed' = expire_prints(
                          format_header(ipwidth, width, ewidth), r.outputs)
    /\ UNCHANGED <<args, calls, tables, idx, width, ewidth, ipwidth,
                   expirations, ips>>

Next ==
    \/ CheckMode
    \/ Discover
    \/ BackupTable
    \/ BackupDone
    \/ ExpireTable
    \/ ExpireReport

Spec == Init /\ [][Next]_vars

(***************************************************************************)
(* Properties.                                                             *)
(***************************************************************************)
\* The listing command was answered and get_persistent_tables returned.
Discovered ==
    \/ pc \in {"backup", "expire", "done"}
    \/ pc = "raised" /\ raised = "KeyError"

\* The run is over: main() returned or an exception left it.
Finished == pc \in {"done", "raised"}

\* The lines the listing command printed in this run.
ListingLines == splitlines(calls[1].so)

\* A listing line '<flags> <name>': two fields, a flag string of at least
\* two characters.
WellFormed(line) == Len(split(line)) >= 2 /\ Len(split(line)[1]) >= 2

\* The names of the well-formed lines of ls flagged 'p' at index 1
\* (zero-based), in the order of ls.
RECURSIVE PersistentNames(_)
PersistentNames(ls) ==
    IF ls = <<>> THEN <<>>
    ELSE LET f == split(Head(ls)) IN
         IF WellFormed(Head(ls)) /\ f[1][2] = "p"
         THEN <<f[2]>> \o PersistentNames(Tail(ls))
         ELSE PersistentNames(Tail(ls))

\* The largest element of a non-empty set of numbers.
Largest(S) == CHOOSE m \in S : \A x \in S : x <= m

\* C1: with both or neither of --backup and --expire the run ends in a
\* ValueError, no command has been run and nothing has been printed; with
\* exactly one of them no ValueError is raised and the first thing the run
\* does is the listing command.
C1_ModeExclusivity ==
    /\ (args.backup = args.expire) =>
          /\ pc \in {"main", "raised"}
          /\ pc = "raised" => raised = "ValueError"
          /\ calls = <<>>
          /\ printed = <<>>
    /\ (args.backup /= args.expire) =>
          /\ raised /= "ValueError"
          /\ pc \notin {"main", "discover"} =>
                Len(calls) >= 1 /\ calls[1].sh = get_persistent_tables_sh

C1_Witness ==
    pc = "raised" /\ raised = "ValueError" /\ args.backup /\ args.expire

\* The command main() runs for table t in the selected mode.
ModeCommand(t) ==
    IF args.backup THEN dump_table(t, backup_filename(args.directory, t))
    ELSE expire_table(t, resolve_expiration(t, args.expiration))

\* C2: after a successful discovery the calls made are the listing command,
\* once, followed by one mode-specific command per discovered table, in
\* discovery order, whatever the earlier commands returned; when the run
\* ends every discovered table has had its one command.
C2_ExactlyOnce ==
    Discovered =>
        /\ Len(calls) >= 1
        /\ calls[1].sh = get_persistent_tables_sh
        /\ Len(calls) <= Len(tables) + 1
        /\ \A i \in 2..Len(calls) : calls[i].sh = ModeCommand(tables[i - 1])
        /\ Finished => Len(calls) = Len(tables) + 1

C2_Witness ==
    /\ pc = "done"
    /\ Len(tables) = 2
    /\ calls[2].rc /= 0
    /\ Len(calls) = 3

FailedDumps == {i \in 1..Len(tables) : calls[i + 1].rc /= 0}

\* C4: a finished backup run has printed exactly one line per table whose
\* dump returned non-zero, naming the table and its destination path, in
\* discovery order, and nothing else.
C4_BackupReport ==
    (pc = "done" /\ args.backup) =>
        /\ Len(printed) = Cardinality(FailedDumps)
        /\ \A i \in FailedDumps :
              \E k \in 1..Len(printed) :
                 printed[k] =
                    err_str(tables[i],
                            backup_filename(args.directory, tables[i]))
        /\ \A k, l \in 1..Len(printed) :
              k < l => \E i, j \in FailedDumps :
                          /\ i < j
                          /\ printed[k] = err_str(tables[i],
                                backup_filename(args.directory, tables[i]))
                          /\ printed[l] = err_str(tables[j],
                                backup_filename(args.directory, tables[j]))

\* The expire commands of this run whose diagnostic did not match.
Unparsed == {i \in 1..Len(tables) : ~re_search(calls[i + 1].se).matched}

\* C5: an expire run in which some table's diagnostic did not match the
\* pattern still ends normally with the report printed: the eight heading
\* lines and one row per discovered table, the unmatched table's count
\* cell holding no digit.
C5_UnparsedNonFatal ==
    (args.expire /\ Discovered /\ Finished /\ Unparsed /= {}) =>
        /\ pc = "done"
        /\ Len(printed) = 8 + Len(tables)
        /\ \A i \in Unparsed :
              \A k \in 1..(2 + ipwidth) : printed[8 + i][k] \notin Digits

\* C6: for a successful listing made of well-formed lines, discovery
\* returns exactly the names of the lines flagged 'p' at index 1, in
\* listing order, duplicates kept.  Stated of the state discovery leaves,
\* before the first per-table command.
C6_DiscoveryFilterOrder ==
    (pc \notin {"main", "discover"} /\ Len(calls) = 1 /\ calls[1].rc = 0) =>
        LET ls == ListingLines IN
        (\A i \in 1..Len(ls) : WellFormed(ls[i])) =>
            /\ Discovered
            /\ tables = PersistentNames(ls)

C6_Witness ==
    /\ Discovered
    /\ calls[1].rc = 0
    /\ LET ls == ListingLines IN
       /\ Len(ls) = 2
       /\ \A i \in 1..2 : WellFormed(ls[i])
       /\ Len(tables) = 1
       /\ tables[1] = split(ls[2])[2]

\* The duration the policy gives table t: the built-in override of the
\* three listed tables, else the --expiration argument.
PolicyDuration(t) ==
    CASE t = name_bad_udp_vpn -> delta_432000
      [] t = name_bad_tcp_vpn -> delta_864000
      [] t = name_bad_ssh -> delta_864000
      [] OTHER -> args.expiration

\* C7: in expire mode the command of every discovered table ends with the
\* policy's duration for that table, and in the report the table's row
\* ends with that same text, right-justified.
C7_PolicyResolution ==
    (args.expire /\ Discovered) =>
        /\ \A i \in 2..Len(calls) :
              LET t == tables[i - 1] IN
              calls[i].sh = pfctl_default \o fmt_t \o t \o fmt_T_expire
                                \o PolicyDuration(t)
        /\ pc = "done" =>
              \A i \in 1..Len(tables) :
                 LET row == printed[8 + i]
                     d == PolicyDuration(tables[i])
                 IN  /\ Len(row) > Len(d)
                     /\ SubSeq(row, Len(row) - Len(d) + 1, Len(row)) = d
                     /\ row[Len(row) - Len(d)] = " "

C7_Witness ==
    /\ pc = "done"
    /\ args.expire
    /\ args.expiration = expiration_text
    /\ tables = <<name_bad_ssh, name_mytable>>

\* C8: a successful listing holding a line with fewer than two fields does
\* not make discovery fail; the tables of the well-formed lines are
\* returned.
C8_MalformedSkipped ==
    (pc \notin {"main", "discover"} /\ Len(calls) >= 1 /\ calls[1].rc = 0) =>
        LET ls == ListingLines IN
        (\E i \in 1..Len(ls) : Len(split(ls[i])) < 2) =>
            /\ Discovered
            /\ tables = PersistentNames(ls)

\* C9 as stated: the separator line is made of dashes and is as long as
\* the header row.
C9_SeparatorHeaderLength ==
    (pc = "done" /\ args.expire) =>
        /\ \A k \in 1..Len(printed[8]) : printed[8][k] = "-"
        /\ Len(printed[8]) = Len(printed[7])

\* C9 amended: the separator line is made of dashes and is two characters
\* longer than the header row.
C9_SeparatorHeaderLengthPlus2 ==
    (pc = "done" /\ args.expire) =>
        /\ \A k \in 1..Len(printed[8]) : printed[8][k] = "-"
        /\ Len(printed[8]) = Len(printed[7]) + 2

C9_Witness ==
    pc = "done" /\ args.expire /\ Len(tables) = 2 /\ width > 8

\* C10: in every expire report the name width is max(8, longest name), the
\* duration width max(length of "Duration", longest duration) and the
\* count width max(1, longest count parsed in the run); no cell is longer
\* than its column,
\* and the header row and every data row have the same length, that of the
\* three widths plus the fixed indent and separators.
C10_ColumnWidths ==
    (pc = "done" /\ args.expire) =>
        LET T == {tables[i] : i \in 1..Len(tables)}
            W == Largest({8} \cup {Len(t) : t \in T})
            EW == Largest({Len(time_str)}
                          \cup {Len(PolicyDuration(t)) : t \in T})
            IW == Largest({1} \cup {Len(re_search(calls[i].se).group1) :
                                        i \in 2..Len(calls)})
        IN  /\ width = W
            /\ ewidth = EW
            /\ ipwidth = IW
            /\ Len(hdr_count) <= IW /\ Len(hdr_table) <= W
            /\ \A t \in T : /\ Len(t) <= W
                            /\ Len(expirations[t]) <= EW
                            /\ Len(ips[t]) <= IW
            /\ \A k \in 7..Len(printed) :
                  k /= 8 => Len(printed[k]) = 2 + IW + 3 + W + 3 + EW

C10_Witness ==
    /\ pc = "done"
    /\ args.expire
    /\ Len(tables) = 2
    /\ width > 8
    /\ ewidth > Len(time_str)
    /\ ipwidth > 1
    /\ \E t \in DOMAIN ips : Len(ips[t]) = 1

=============================================================================
